---- MODULE Spec2Model ----
(***************************************************************************)
(* A model of isimip.py: download_isimip_data (validation, task list,      *)
(* thread pool of process_file units, post-download phases) and the        *)
(* standalone combine_netcdf_files / create_ncml_files loops.              *)
(***************************************************************************)
EXTENDS Integers, Sequences, FiniteSets, TLC

VARIABLES
    call,           \* the arguments the caller passed (fn, selectors, flags)
    pc,             \* position of the called function
    result,         \* "running", "returned" or the exception that reached the caller
    model_choices,  \* local: list of models after str->list and "all"
    variables,      \* local: list of variables after str->list
    scenarios,      \* local: list of scenarios
    tasks,          \* the task list handed to executor.map
    futures,        \* per task: "pending", "running", "returned", "raised"
    inflight,       \* tasks a worker holds between the exists check and the write
    dirs,           \* directories that exist under output_dir
    fs,             \* files that exist under output_dir: path -> content
    tree0,          \* the tree (dirs, fs) as it was when the call began
    found,          \* tasks whose target existed when their unit looked
    opens,          \* tasks that issued a remote open during this call
    writers,        \* tasks that wrote their target during this call
    failures,       \* injected failures during this call
    run,            \* number of calls made so far
    visited,        \* the (model, scenario) pairs the Aggregator/Combiner visited
    pos             \* Aggregator/Combiner loops: <<scenario index, model index>>

vars == <<call, pc, result, model_choices, variables, scenarios, tasks, futures,
          inflight, dirs, fs, tree0, found, opens, writers, failures, run, visited,
          pos>>

-----------------------------------------------------------------------------
(* Bounds of the model *)

MaxList == 2
MaxWorkers == 2
MaxFailures == 1
MaxRuns == 2
MaxTasks == 8

-----------------------------------------------------------------------------
(* Catalog *)

valid_models ==
    <<"GFDL-ESM4", "MPI-ESM1-2-HR", "IPSL-CM6A-LR", "MRI-ESM2-0", "UKESM1-0-LL">>

model_lower(model) ==
    CASE model = "GFDL-ESM4" -> "gfdl-esm4"
      [] model = "MPI-ESM1-2-HR" -> "mpi-esm1-2-hr"
      [] model = "IPSL-CM6A-LR" -> "ipsl-cm6a-lr"
      [] model = "MRI-ESM2-0" -> "mri-esm2-0"
      [] model = "UKESM1-0-LL" -> "ukesm1-0-ll"

valid_variables == <<"hurs", "huss", "pr", "prsn", "ps", "tas", "tasmax", "tasmin">>

valid_scenarios == <<"historical", "ssp126", "ssp585">>

Elems(s) == {s[i] : i \in 1..Len(s)}

-----------------------------------------------------------------------------
(* Argument values: a selector is a str or a list of str *)

Str(s) == [str |-> TRUE, v |-> s]
List(l) == [str |-> FALSE, v |-> l]

SeqsUpTo(S, n) == UNION {[1..k -> S] : k \in 0..n}

ModelNames == {"GFDL-ESM4", "XYZ", "all"}
VariableNames == {"tas", "pr", "bad"}
ScenarioNames == {"historical", "ssp126", "all", "rcp85"}

Selectors(S) == {Str(s) : s \in S} \cup {List(l) : l \in SeqsUpTo(S, MaxList)}

\* isinstance(x, str) -> [x]
AsList(x) == IF x.str THEN <<x.v>> ELSE x.v

\* "all" in model_choices -> list(valid_models.keys())
ResolveModels(x) == IF "all" \in Elems(AsList(x)) THEN valid_models ELSE AsList(x)

ResolveScenarios(scenario) == IF scenario = "all" THEN valid_scenarios ELSE <<scenario>>

\* a validation that looks at the first entry of each list only
InvalidInputFirstOnly(ms, vs, scs) ==
    \/ Len(ms) > 0 /\ ms[1] \notin Elems(valid_models)
    \/ Len(vs) > 0 /\ vs[1] \notin Elems(valid_variables)
    \/ Len(scs) > 0 /\ scs[1] \notin Elems(valid_scenarios)

\* the three validation loops: TRUE when one of them raises ValueError
InvalidInput(ms, vs, scs) ==
    \/ \E i \in 1..Len(ms) : ms[i] \notin Elems(valid_models)
    \/ \E i \in 1..Len(vs) : vs[i] \notin Elems(valid_variables)
    \/ \E i \in 1..Len(scs) : scs[i] \notin Elems(valid_scenarios)

-----------------------------------------------------------------------------
(* Task list *)

RECURSIVE Range(_, _, _)
Range(first, stop, step) ==
    IF first >= stop THEN <<>> ELSE <<first>> \o Range(first + step, stop, step)

years(scen) ==
    IF scen = "historical" THEN Range(1971, 2011, 10) ELSE Range(2021, 2091, 10)

RECURSIVE Flatten(_)
Flatten(ss) == IF ss = <<>> THEN <<>> ELSE Head(ss) \o Flatten(Tail(ss))

BuildTasks(ms, scs, vs) ==
    Flatten([i \in 1..Len(ms) |->
      Flatten([j \in 1..Len(scs) |->
        Flatten([k \in 1..Len(vs) |->
          [y \in 1..Len(years(scs[j])) |->
            [model |-> ms[i], variable |-> vs[k], scen |-> scs[j],
             year |-> years(scs[j])[y]]]])])])

-----------------------------------------------------------------------------
(* process_file *)

Min(a, b) == IF a < b THEN a ELSE b

\* an end year without the cap of the historical period
end_year_uncapped(scen, year) == year + 9

end_year(scen, year) == IF scen = "historical" THEN Min(year + 9, 2014) ELSE year + 9

\* the early return of the historical branch
EarlyReturn(scen, year) == scen = "historical" /\ end_year(scen, year) < year

experiment(model) == IF model = "UKESM1-0-LL" THEN "r1i1p1f2" ELSE "r1i1p1f1"

file_name(t) ==
    [model_lower |-> model_lower(t.model), experiment |-> experiment(t.model),
     scen |-> t.scen, variable |-> t.variable, year |-> t.year,
     end_year |-> end_year(t.scen, t.year)]

out_dir(t) == <<t.model, t.scen>>

output_file(t) == [dir |-> out_dir(t), name |-> file_name(t), suffix |-> "_cropped.nc"]

\* an exists check that never finds the file
ExistsNever(path, files) == FALSE

\* output_file.exists()
Exists(path, files) == path \in DOMAIN files

\* file contents: a readable dataset, or something that is none
Dataset(v, time) == [kind |-> "netcdf", variable |-> v, time |-> time]
NotDataset(kind) == [kind |-> kind, variable |-> "", time |-> <<>>]

\* what the remote file of a task holds
RemoteDataset(t) == Dataset(t.variable, <<t.year, end_year(t.scen, t.year)>>)

\* Path.mkdir(parents=True, exist_ok=True)
Mkdir(ds, path) == ds \cup {SubSeq(path, 1, k) : k \in 1..Len(path)}

Put(files, path, content) ==
    [p \in DOMAIN files \cup {path} |-> IF p = path THEN content ELSE files[p]]

\* number of writes of a path during this call
Writes(path) == Cardinality({i \in writers : output_file(tasks[i]) = path})

-----------------------------------------------------------------------------
(* download_isimip_data *)

DownloadCalls ==
    {[fn |-> "download", model_choices |-> m, variables |-> v, scenario |-> s,
      combine_files |-> c, max_workers |-> w] :
        m \in Selectors(ModelNames), v \in Selectors(VariableNames),
        s \in ScenarioNames, c \in BOOLEAN, w \in {MaxWorkers}}

TasksOf(c) ==
    BuildTasks(ResolveModels(c.model_choices), ResolveScenarios(c.scenario),
               AsList(c.variables))

\* the calls that raise in validation, and those whose pool runs at most
\* MaxTasks tasks
BoundedCalls ==
    {c \in DownloadCalls :
       \/ InvalidInput(ResolveModels(c.model_choices), AsList(c.variables),
                       ResolveScenarios(c.scenario))
       \/ Len(TasksOf(c)) <= MaxTasks}

Init ==
    /\ call \in BoundedCalls
    /\ pc = "validate"
    /\ result = "running"
    /\ model_choices = <<>>
    /\ variables = <<>>
    /\ scenarios = <<>>
    /\ tasks = <<>>
    /\ futures = <<>>
    /\ inflight = {}
    /\ dirs = {}
    /\ fs = <<>>
    /\ tree0 = [dirs |-> dirs, fs |-> fs]
    /\ found = {}
    /\ opens = {}
    /\ writers = {}
    /\ failures = 0
    /\ run = 1
    /\ visited = <<>>
    /\ pos = <<0, 0>>

\* lines 173-198: normalise, resolve "all", validate
Validate ==
    /\ pc = "validate"
    /\ call.fn = "download"
    /\ model_choices' = ResolveModels(call.model_choices)
    /\ variables' = AsList(call.variables)
    /\ scenarios' = ResolveScenarios(call.scenario)
    /\ IF InvalidInput(model_choices', variables', scenarios')
         THEN /\ result' = "ValueError"
              /\ pc' = "done"
         ELSE /\ result' = result
              /\ pc' = "tasks"
    /\ UNCHANGED <<call, tasks, futures, inflight, dirs, fs, tree0, found, opens, writers,
                   failures, run, visited, pos>>

\* lines 248-263: build the task list; executor.map submits every task
Submit ==
    /\ pc = "tasks"
    /\ tasks' = BuildTasks(model_choices, scenarios, variables)
    /\ futures' = [i \in 1..Len(tasks') |-> "pending"]
    /\ pc' = "pool"
    /\ UNCHANGED <<call, result, model_choices, variables, scenarios, inflight,
                   dirs, fs, tree0, found, opens, writers, failures, run, visited, pos>>

\* the work queue is FIFO: the next task is the first pending one
NextTask(futs) ==
    IF \E i \in 1..Len(futs) : futs[i] = "pending"
      THEN CHOOSE i \in 1..Len(futs) :
             futs[i] = "pending" /\ \A j \in 1..(i - 1) : futs[j] # "pending"
      ELSE 0

Running(futs) == {i \in 1..Len(futs) : futs[i] = "running"}

\* a future is finished: process_file returned ("done"), returned after its
\* except block logged an error ("logged"), or raised ("raised")
Finished == {"done", "logged", "raised"}

\* lines 204-226: a free worker takes the next task and runs process_file
\* up to the exists check
StartUnit ==
    /\ pc = "pool"
    /\ NextTask(futures) # 0
    /\ Cardinality(Running(futures)) < call.max_workers
    /\ LET i == NextTask(futures)
           t == tasks[i]
       IN \/ /\ EarlyReturn(t.scen, t.year)
             /\ futures' = [futures EXCEPT ![i] = "done"]
             /\ UNCHANGED <<dirs, inflight, failures, found>>
          \/ \* mkdir raises: outside the try block, the future holds the error
             /\ ~EarlyReturn(t.scen, t.year)
             /\ failures < MaxFailures
             /\ out_dir(t) \notin dirs
             /\ futures' = [futures EXCEPT ![i] = "raised"]
             /\ failures' = failures + 1
             /\ UNCHANGED <<dirs, inflight, found>>
          \/ /\ ~EarlyReturn(t.scen, t.year)
             /\ dirs' = Mkdir(dirs, out_dir(t))
             /\ found' = IF output_file(t) \in DOMAIN fs THEN found \cup {i} ELSE found
             /\ IF Exists(output_file(t), fs)
                  THEN /\ futures' = [futures EXCEPT ![i] = "done"]
                       /\ UNCHANGED inflight
                  ELSE /\ futures' = [futures EXCEPT ![i] = "running"]
                       /\ inflight' = inflight \cup {i}
             /\ UNCHANGED failures
    /\ UNCHANGED <<call, pc, result, model_choices, variables, scenarios, tasks,
                   fs, tree0, opens, writers, run, visited, pos>>

\* lines 228-246: open the remote dataset, crop, write; errors are logged
Fetch(i) ==
    /\ pc = "pool"
    /\ i \in inflight
    /\ inflight' = inflight \ {i}
    /\ opens' = opens \cup {i}
    /\ LET t == tasks[i]
           f == output_file(t)
       IN \/ \* xr.open_dataset raises
             /\ failures < MaxFailures
             /\ failures' = failures + 1
             /\ futures' = [futures EXCEPT ![i] = "logged"]
             /\ UNCHANGED <<fs, writers>>
          \/ \* to_netcdf raises and leaves a partial file
             /\ failures < MaxFailures
             /\ failures' = failures + 1
             /\ futures' = [futures EXCEPT ![i] = "logged"]
             /\ fs' = Put(fs, f, NotDataset("partial"))
             /\ writers' = writers \cup {i}
          \/ /\ fs' = Put(fs, f, RemoteDataset(t))
             /\ writers' = writers \cup {i}
             /\ futures' = [futures EXCEPT ![i] = "done"]
             /\ UNCHANGED failures
    /\ UNCHANGED <<call, pc, result, model_choices, variables, scenarios, tasks,
                   dirs, tree0, found, run, visited, pos>>

\* a pool whose results are consumed: the first stored exception is re-raised
ExecutorMapRaisesConsumed(futs) == \E i \in 1..Len(futs) : futs[i] = "raised"

\* the results of executor.map are never iterated
ExecutorMapRaises(futs) == FALSE

\* line 262: leaving the with block waits for every future
PoolExit ==
    /\ pc = "pool"
    /\ \A i \in 1..Len(futures) : futures[i] \in Finished
    /\ IF ExecutorMapRaises(futures)
         THEN /\ result' = "OSError"
              /\ pc' = "done"
         ELSE /\ result' = result
              /\ pc' = "post"
    /\ UNCHANGED <<call, model_choices, variables, scenarios, tasks, futures,
                   inflight, dirs, fs, tree0, found, opens, writers, failures, run, visited, pos>>

\* line 266: conda_env is neither a parameter, a local nor a module global
CheckCondaEnv ==
    /\ pc = "post"
    /\ result' = "NameError"
    /\ pc' = "done"
    /\ UNCHANGED <<call, model_choices, variables, scenarios, tasks, futures,
                   inflight, dirs, fs, tree0, found, opens, writers, failures, run, visited, pos>>

\* the caller calls again with the same arguments over the same output_dir
Rerun ==
    /\ pc = "done"
    /\ run < MaxRuns
    /\ run' = run + 1
    /\ pc' = "validate"
    /\ result' = "running"
    /\ model_choices' = <<>>
    /\ variables' = <<>>
    /\ scenarios' = <<>>
    /\ tasks' = <<>>
    /\ futures' = <<>>
    /\ tree0' = [dirs |-> dirs, fs |-> fs]
    /\ found' = {}
    /\ opens' = {}
    /\ writers' = {}
    /\ failures' = 0
    /\ UNCHANGED <<call, inflight, dirs, fs, visited, pos>>

Next ==
    \/ Validate
    \/ Submit
    \/ StartUnit
    \/ \E i \in 1..MaxTasks : Fetch(i)
    \/ PoolExit
    \/ CheckCondaEnv
    \/ Rerun

Spec == Init /\ [][Next]_vars

-----------------------------------------------------------------------------
(* process_file applied to arbitrary units (model, variable, scen, year),  *)
(* also tree0 years no task list holds                                     *)

UnitModels == {"GFDL-ESM4", "UKESM1-0-LL"}
UnitScenarios == {"historical", "ssp126"}
UnitYears == {2001, 2011, 2014, 2015, 2021}

Units ==
    [model : UnitModels, variable : {"tas"}, scen : UnitScenarios, year : UnitYears]

InitUnit ==
    /\ call = [fn |-> "process_file", max_workers |-> MaxWorkers]
    /\ pc = "pool"
    /\ result = "running"
    /\ model_choices = <<>>
    /\ variables = <<>>
    /\ scenarios = <<>>
    /\ tasks \in SeqsUpTo(Units, MaxList) \ {<<>>}
    /\ futures = [i \in 1..Len(tasks) |-> "pending"]
    /\ inflight = {}
    /\ dirs = {}
    /\ fs = <<>>
    /\ tree0 = [dirs |-> dirs, fs |-> fs]
    /\ found = {}
    /\ opens = {}
    /\ writers = {}
    /\ failures = 0
    /\ run = 1
    /\ visited = <<>>
    /\ pos = <<0, 0>>

NextUnit ==
    \/ StartUnit
    \/ \E i \in 1..MaxTasks : Fetch(i)

SpecUnit == InitUnit /\ [][NextUnit]_vars

-----------------------------------------------------------------------------
(* xr.open_mfdataset(nc_files, combine='by_coords', preprocess=sortby time) *)

RECURSIVE Insert(_, _)
Insert(x, s) ==
    IF s = <<>> THEN <<x>>
    ELSE IF x < Head(s) THEN <<x>> \o s
    ELSE <<Head(s)>> \o Insert(x, Tail(s))

RECURSIVE SortAsc(_)
SortAsc(s) == IF s = <<>> THEN <<>> ELSE Insert(Head(s), SortAsc(Tail(s)))

RECURSIVE SetToSortAsc(_)
SetToSortAsc(S) ==
    IF S = {} THEN <<>>
    ELSE LET m == CHOOSE x \in S : \A y \in S : x <= y
         IN <<m>> \o SetToSortAsc(S \ {m})

Reverse(s) == [i \in 1..Len(s) |-> s[Len(s) + 1 - i]]

IsIncreasing(s) == \A i \in 1..(Len(s) - 1) : s[i] <= s[i + 1]
IsDecreasing(s) == \A i \in 1..(Len(s) - 1) : s[i] >= s[i + 1]
IsMonotonic(s) == IsIncreasing(s) \/ IsDecreasing(s)
HasDuplicates(s) == \E i, j \in 1..Len(s) : i < j /\ s[i] = s[j]

CombineError == [ok |-> FALSE, time |-> <<>>]

\* no preprocessing of the files
preprocess_none(ds) == ds

\* line 117: preprocess=lambda ds: ds.sortby('time')
preprocess(ds) == [ds EXCEPT !.time = SortAsc(ds.time)]

\* the datasets of one data variable: ordered by the first value of their time
\* index (datasets that tree0 alike share a position, the last one stays),
\* concatenated, and refused unless the global index is monotonic
ConcatByCoords(g) ==
    IF Len(g) = 1 THEN [ok |-> TRUE, time |-> g[1].time]
    ELSE IF \A i \in 2..Len(g) : g[i].time = g[1].time THEN CombineError
    ELSE IF ~ \/ \A i \in 1..Len(g) : IsIncreasing(g[i].time)
              \/ \A i \in 1..Len(g) : IsDecreasing(g[i].time)
      THEN CombineError
    ELSE LET ascending == \A i \in 1..Len(g) : IsIncreasing(g[i].time)
             firsts == SetToSortAsc({g[i].time[1] : i \in 1..Len(g)})
             order == IF ascending THEN firsts ELSE Reverse(firsts)
             last(v) == CHOOSE i \in 1..Len(g) :
                          /\ g[i].time[1] = v
                          /\ \A j \in (i + 1)..Len(g) : g[j].time[1] # v
             cat == Flatten([k \in 1..Len(order) |-> g[last(order[k])].time])
         IN IF IsMonotonic(cat) THEN [ok |-> TRUE, time |-> cat] ELSE CombineError

\* lines 113-118 on the files in the order glob found them
open_mfdataset(contents) ==
    IF \E i \in 1..Len(contents) : contents[i].kind # "netcdf" THEN CombineError
    ELSE LET ds == [i \in 1..Len(contents) |-> preprocess(contents[i])]
             vs == {ds[i].variable : i \in 1..Len(ds)}
             group(v) == SelectSeq(ds, LAMBDA d : d.variable = v)
             part(v) == ConcatByCoords(group(v))
         IN IF \E v \in vs : ~part(v).ok THEN CombineError
            ELSE IF \A v, w \in vs : part(v).time = part(w).time
              THEN [ok |-> TRUE, time |-> part(CHOOSE v \in vs : TRUE).time]
            \* merge: outer join of the time indexes
            ELSE IF \E v \in vs : HasDuplicates(part(v).time) THEN CombineError
            ELSE [ok |-> TRUE,
                  time |-> SetToSortAsc(UNION {Elems(part(v).time) : v \in vs})]

-----------------------------------------------------------------------------
(* combine_netcdf_files and create_ncml_files *)

\* lines 31, 85
ResolvePostModels(x) == IF x = Str("all") THEN valid_models ELSE AsList(x)

\* source_dir.glob("*_cropped.nc")
Glob(dir, files) == {p \in DOMAIN files : p.dir = dir /\ p.suffix = "_cropped.nc"}

Orders(S) == {f \in [1..Cardinality(S) -> S] : \A i, j \in DOMAIN f : f[i] = f[j] => i = j}

combined_file(model, scen) ==
    [dir |-> <<"combined", scen>>, name |-> model, suffix |-> "_combined.nc"]

ncml_file(model, scen) ==
    [dir |-> <<"ncml", scen>>, name |-> <<model, scen>>, suffix |-> ".ncml"]

\* a handler that re-raises
OnPairFailureRaise == "raise"

\* what the handler of a failed pair does with the loop
OnPairFailure == "continue"

\* lines 79-90
CombineEnter ==
    /\ pc = "combine"
    /\ model_choices' = ResolvePostModels(call.model_choices)
    /\ scenarios' = ResolveScenarios(call.scenario)
    /\ \/ /\ failures < MaxFailures
          /\ <<"combined">> \notin dirs
          /\ failures' = failures + 1
          /\ result' = "OSError"
          /\ pc' = "done"
          /\ UNCHANGED <<dirs, pos>>
       \/ /\ dirs' = Mkdir(dirs, <<"combined">>)
          /\ pc' = "scenario"
          /\ pos' = <<1, 0>>
          /\ UNCHANGED <<failures, result>>
    /\ UNCHANGED <<call, variables, tasks, futures, inflight, fs, tree0, found, opens, writers,
                   run, visited>>

\* lines 25-35
NcmlEnter ==
    /\ pc = "ncml"
    /\ model_choices' = ResolvePostModels(call.model_choices)
    /\ scenarios' = ResolveScenarios(call.scenario)
    /\ pc' = "scenario"
    /\ pos' = <<1, 0>>
    /\ UNCHANGED <<call, result, variables, tasks, futures, inflight, dirs, fs,
                   tree0, found, opens, writers, failures, run, visited>>

\* lines 37-38, 92-95: the next scenario and its output directory
PostScenario ==
    /\ pc = "scenario"
    /\ pos[1] <= Len(scenarios)
    /\ LET d == <<(IF call.fn = "combine" THEN "combined" ELSE "ncml"),
                  scenarios[pos[1]]>>
       IN \/ /\ failures < MaxFailures
             /\ d \notin dirs
             /\ failures' = failures + 1
             /\ result' = "OSError"
             /\ pc' = "done"
             /\ UNCHANGED <<dirs, pos>>
          \/ /\ dirs' = Mkdir(dirs, d)
             /\ pc' = "model"
             /\ pos' = <<pos[1], 1>>
             /\ UNCHANGED <<failures, result>>
    /\ UNCHANGED <<call, model_choices, variables, scenarios, tasks, futures,
                   inflight, fs, tree0, found, opens, writers, run, visited>>

\* the inner loop is exhausted
PostNextScenario ==
    /\ pc = "model"
    /\ pos[2] > Len(model_choices)
    /\ pc' = "scenario"
    /\ pos' = <<pos[1] + 1, 0>>
    /\ UNCHANGED <<call, result, model_choices, variables, scenarios, tasks,
                   futures, inflight, dirs, fs, tree0, found, opens, writers, failures, run,
                   visited>>

\* the outer loop is exhausted: the function returns
PostReturn ==
    /\ pc = "scenario"
    /\ pos[1] > Len(scenarios)
    /\ result' = "returned"
    /\ pc' = "done"
    /\ UNCHANGED <<call, model_choices, variables, scenarios, tasks, futures,
                   inflight, dirs, fs, tree0, found, opens, writers, failures, run, visited, pos>>

\* how a pair that failed leaves the loop
AfterFailure ==
    IF OnPairFailure = "continue"
      THEN /\ pc' = pc
           /\ pos' = <<pos[1], pos[2] + 1>>
           /\ result' = result
      ELSE /\ pc' = "done"
           /\ pos' = pos
           /\ result' = "Exception"

\* lines 97-133: one (model, scenario) pair of the Combiner
CombinePair ==
    /\ pc = "model"
    /\ call.fn = "combine"
    /\ pos[2] <= Len(model_choices)
    /\ LET scen == scenarios[pos[1]]
           model == model_choices[pos[2]]
           source_dir == <<model, scen>>
           nc_files == Glob(source_dir, fs)
       IN /\ visited' = Append(visited, <<model, scen>>)
          /\ \/ \* source directory missing, or no matching files: skip
                /\ source_dir \notin dirs \/ nc_files = {}
                /\ pc' = pc
                /\ pos' = <<pos[1], pos[2] + 1>>
                /\ UNCHANGED <<fs, failures, result>>
             \/ /\ source_dir \in dirs
                /\ nc_files # {}
                /\ \E listed \in Orders(nc_files) :
                     LET ds == open_mfdataset([i \in DOMAIN listed |-> fs[listed[i]]])
                     IN \/ \* open or combine raises
                           /\ ~ds.ok
                           /\ AfterFailure
                           /\ UNCHANGED <<fs, failures>>
                        \/ \* to_netcdf raises
                           /\ ds.ok
                           /\ failures < MaxFailures
                           /\ failures' = failures + 1
                           /\ fs' = Put(fs, combined_file(model, scen), NotDataset("partial"))
                           /\ AfterFailure
                        \/ /\ ds.ok
                           /\ fs' = Put(fs, combined_file(model, scen),
                                        Dataset("combined", ds.time))
                           /\ pc' = pc
                           /\ pos' = <<pos[1], pos[2] + 1>>
                           /\ UNCHANGED <<failures, result>>
    /\ UNCHANGED <<call, model_choices, variables, scenarios, tasks, futures,
                   inflight, dirs, tree0, found, opens, writers, run>>

\* lines 40-63: one (model, scenario) pair of the Aggregator
NcmlPair ==
    /\ pc = "model"
    /\ call.fn = "ncml"
    /\ pos[2] <= Len(model_choices)
    /\ LET scen == scenarios[pos[1]]
           model == model_choices[pos[2]]
           source_dir == <<model, scen>>
       IN /\ visited' = Append(visited, <<model, scen>>)
          /\ \/ /\ source_dir \notin dirs
                /\ pc' = pc
                /\ pos' = <<pos[1], pos[2] + 1>>
                /\ UNCHANGED <<fs, failures, result>>
             \/ \* the external process exits non-zero
                /\ source_dir \in dirs
                /\ failures < MaxFailures
                /\ failures' = failures + 1
                /\ AfterFailure
                /\ UNCHANGED fs
             \/ /\ source_dir \in dirs
                /\ fs' = Put(fs, ncml_file(model, scen), NotDataset("ncml"))
                /\ pc' = pc
                /\ pos' = <<pos[1], pos[2] + 1>>
                /\ UNCHANGED <<failures, result>>
    /\ UNCHANGED <<call, model_choices, variables, scenarios, tasks, futures,
                   inflight, dirs, tree0, found, opens, writers, run>>

(* the trees the standalone calls tree0 from *)

MaxFiles == 2
MaxLen == 2
TimeValues == {0, 1, 2}

\* the time axis of one file: distinct time stamps in any order
TimeAxes ==
    {t \in UNION {[1..k -> TimeValues] : k \in 1..MaxLen} :
       \A i, j \in DOMAIN t : t[i] = t[j] => i = j}

FileContents ==
    {Dataset(v, t) : v \in {"tas", "pr"}, t \in TimeAxes}
        \cup {NotDataset("partial")}

RECURSIVE TimeKey(_)
TimeKey(t) == IF t = <<>> THEN 0 ELSE 1 + Head(t) + 4 * TimeKey(Tail(t))

\* a number per content, to list the files of a tree in one order only
ContentKey(c) ==
    IF c.kind # "netcdf" THEN 0
    ELSE 2 * TimeKey(c.time) + (IF c.variable = "tas" THEN 1 ELSE 2)

SourceDir == <<"GFDL-ESM4", "historical">>

cropped(dir, k) == [dir |-> dir, name |-> k, suffix |-> "_cropped.nc"]

\* a source directory holding up to n files of any content
Trees(most) ==
    UNION {
      {[dirs |-> Mkdir({}, SourceDir),
        fs |-> [p \in {cropped(SourceDir, k) : k \in 1..n} |-> c[p.name]]] :
          c \in {f \in [1..n -> FileContents] :
                   \A i \in 1..(n - 1) : ContentKey(f[i]) <= ContentKey(f[i + 1])}} :
      n \in 0..most}

\* no tree; one file; one file and a directory without matching files
TreeSamples ==
    LET one == [p \in {cropped(SourceDir, 1)} |->
                  Dataset("tas", <<1, 0>>)]
        other == [dir |-> <<"GFDL-ESM4", "ssp126">>, name |-> 1, suffix |-> ".txt"]
    IN {[dirs |-> {}, fs |-> <<>>],
        [dirs |-> Mkdir({}, SourceDir), fs |-> one],
        [dirs |-> Mkdir(Mkdir({}, SourceDir), <<"GFDL-ESM4", "ssp126">>),
         fs |-> Put(one, other, NotDataset("text"))]}

PostCalls ==
    {[fn |-> f, model_choices |-> m, scenario |-> s] :
        f \in {"combine", "ncml"}, m \in Selectors(ModelNames), s \in ScenarioNames}

InitPost ==
    /\ \/ \E tree \in TreeSamples :
            /\ call \in PostCalls
            /\ dirs = tree.dirs
            /\ fs = tree.fs
       \/ \E tree \in Trees(MaxFiles) :
            /\ call = [fn |-> "combine", model_choices |-> Str("GFDL-ESM4"),
                       scenario |-> "historical"]
            /\ dirs = tree.dirs
            /\ fs = tree.fs
    /\ pc = call.fn
    /\ result = "running"
    /\ model_choices = <<>>
    /\ variables = <<>>
    /\ scenarios = <<>>
    /\ tasks = <<>>
    /\ futures = <<>>
    /\ inflight = {}
    /\ tree0 = [dirs |-> dirs, fs |-> fs]
    /\ found = {}
    /\ opens = {}
    /\ writers = {}
    /\ failures = 0
    /\ run = 1
    /\ visited = <<>>
    /\ pos = <<0, 0>>

NextPost ==
    \/ CombineEnter
    \/ NcmlEnter
    \/ PostScenario
    \/ PostNextScenario
    \/ PostReturn
    \/ CombinePair
    \/ NcmlPair

SpecPost == InitPost /\ [][NextPost]_vars

-----------------------------------------------------------------------------
(* Properties *)

IsDownload == call.fn = "download"

\* validation has passed
Validated ==
    /\ IsDownload
    /\ pc \in {"tasks", "pool", "post", "done"}
    /\ result # "ValueError"

\* the download phase is over
PoolLeft == Validated /\ pc \in {"post", "done"}

RequestedModels == Elems(AsList(call.model_choices))
RequestedVariables == Elems(AsList(call.variables))

Targets == {output_file(tasks[i]) : i \in 1..Len(tasks)}

NoSideEffects ==
    /\ dirs = tree0.dirs
    /\ fs = tree0.fs
    /\ tasks = <<>>
    /\ futures = <<>>
    /\ opens = {}
    /\ writers = {}

(* C1 *)

ClaimedDecadeStarts(scen) ==
    IF scen = "historical" THEN {1971, 1981, 1991, 2001, 2011}
    ELSE {2021, 2031, 2041, 2051, 2061, 2071, 2081}

ClaimedTasks ==
    UNION {{[model |-> m, variable |-> v, scen |-> sc, year |-> y] :
              m \in Elems(model_choices), v \in Elems(variables),
              y \in ClaimedDecadeStarts(sc)} : sc \in Elems(scenarios)}

\* C1: the task list is the cross-product models x scenarios x variables x
\* decade starts (historical 1971..2011, future 2021..2081), and a run for one
\* model, one variable and historical in which every fetch succeeds leaves
\* exactly 5 *_cropped.nc files.
C1_TaskListIsCrossProduct ==
    /\ (IsDownload /\ pc \in {"pool", "post"}) => Elems(tasks) = ClaimedTasks
    /\ (PoolLeft /\ run = 1 /\ failures = 0 /\ Len(model_choices) = 1
          /\ Len(variables) = 1 /\ scenarios = <<"historical">>)
         => Cardinality(Glob(<<model_choices[1], "historical">>, fs)) = 5

(* C2 *)

\* C2: once validation has passed, download_isimip_data returns normally:
\* the only error that reaches the caller is the validation error.
C2_OnlyValidationErrorSurfaces ==
    IsDownload =>
      /\ result \in {"running", "returned", "ValueError"}
      /\ (pc = "done" /\ result # "ValueError") => result = "returned"

(* C3 *)

\* ("all" is the shorthand of both selectors, not a name)
SomeNameInvalid ==
    \/ \E m \in RequestedModels : m \notin Elems(valid_models) \cup {"all"}
    \/ \E v \in RequestedVariables : v \notin Elems(valid_variables)
    \/ call.scenario \notin Elems(valid_scenarios) \cup {"all"}

RaisedBeforeAnyEffect ==
    /\ result = "ValueError"
    /\ pc = "done"
    /\ NoSideEffects

\* C3 as stated: if any requested model is not one of the fixed 5, any
\* requested variable not one of the fixed 8, or the scenario neither "all"
\* nor one of the fixed 3, the call raises the validation error before any
\* directory, task or remote open.
C3_AnyInvalidNameRaises ==
    (IsDownload /\ pc # "validate" /\ SomeNameInvalid) => RaisedBeforeAnyEffect

\* a model selector holding "all" is replaced by the fixed 5 before the
\* validation loops run: its entries are not looked at
SomeNameInvalidAfterAll ==
    \/ /\ "all" \notin RequestedModels
       /\ \E m \in RequestedModels : m \notin Elems(valid_models)
    \/ \E v \in RequestedVariables : v \notin Elems(valid_variables)
    \/ call.scenario \notin Elems(valid_scenarios) \cup {"all"}

\* C3 (amended): if the model selector does not hold "all" and some requested
\* model is not one of the fixed 5, or some requested variable is not one of
\* the fixed 8, or the scenario is neither "all" nor one of the fixed 3, the
\* call raises the validation error with no directory created, no task built
\* or submitted, no remote open issued and the tree unchanged.
C3_InvalidNameRaisesBeforeIO ==
    (IsDownload /\ pc # "validate" /\ SomeNameInvalidAfterAll)
      => RaisedBeforeAnyEffect

\* an invalid model beside a valid one, valid variables and scenario: raised
C3_Witness ==
    /\ IsDownload
    /\ call.model_choices = List(<<"GFDL-ESM4", "XYZ">>)
    /\ call.variables = List(<<"tas", "pr">>)
    /\ call.scenario = "historical"
    /\ RaisedBeforeAnyEffect

(* C4 *)

\* C4: a unit whose target exists when it looks performs no remote open and
\* no write; a second run over a tree that holds every target issues no
\* remote open and leaves every file as it was.
C4_ExistingTargetsAreSkipped ==
    IsDownload =>
      /\ \A i \in found :
           /\ i \notin opens
           /\ i \notin writers
           /\ i \notin inflight
      /\ (run > 1 /\ pc \in {"pool", "post", "done"} /\ result # "ValueError"
            /\ \A f \in Targets : f \in DOMAIN tree0.fs)
           => /\ opens = {}
              /\ writers = {}
              /\ fs = tree0.fs

\* the second run over the tree the first run populated has finished its pool
C4_Witness ==
    /\ IsDownload
    /\ run = 2
    /\ pc = "post"
    /\ Len(tasks) > 1
    /\ \A f \in Targets : f \in DOMAIN tree0.fs
    /\ found = 1..Len(tasks)
    /\ opens = {}

(* C5 *)

\* C5: the Combiner runs if and only if combination was requested, it (and
\* the Aggregator) starts only after every download task has returned, and
\* with neither requested no ncml or combined directory is created.
C5_CombinerRunsIffRequested ==
    /\ (Validated /\ pc = "done") => (call.combine_files <=> <<"combined">> \in dirs)
    /\ (IsDownload /\ (<<"combined">> \in dirs \/ <<"ncml">> \in dirs))
         => \A i \in 1..Len(futures) : futures[i] \in Finished
    /\ (IsDownload /\ ~call.combine_files) => <<"combined">> \notin dirs

(* C6 *)

\* C6: no two tasks of the task list share a target path, no two workers are
\* between the exists check and the write of the same target, and each
\* target is written at most once per run.
C6_TargetsAreUnique ==
    IsDownload =>
      /\ \A i, j \in 1..Len(tasks) :
           i # j => output_file(tasks[i]) # output_file(tasks[j])
      /\ \A i, j \in inflight :
           i # j => output_file(tasks[i]) # output_file(tasks[j])
      /\ \A f \in Targets : Writes(f) <= 1

(* C7 *)

\* C7: a failure in one download unit ends that unit only: when the download
\* phase is over every task has been executed, every unit that did not fail
\* has its target on disk, and no unit's exception has reached the caller.
C7_UnitFailureIsLocal ==
    /\ IsDownload => result \notin {"OSError", "Exception"}
    /\ PoolLeft =>
         \A i \in 1..Len(tasks) :
           /\ futures[i] \in Finished
           /\ futures[i] = "done" => output_file(tasks[i]) \in DOMAIN fs

\* a unit raised, a later unit was still executed, and the call went on
C7_Witness ==
    /\ PoolLeft
    /\ \E i, j \in 1..Len(tasks) :
         /\ i < j
         /\ futures[i] = "raised"
         /\ futures[j] = "done"
         /\ j \in writers

(* C8 *)

ClaimedEndYear(scen, year) ==
    IF scen = "historical" THEN (IF year + 9 < 2014 THEN year + 9 ELSE 2014)
    ELSE year + 9

EndsBeforeStart(t) == ClaimedEndYear(t.scen, t.year) < t.year

\* C8: the end year in the file name is min(start+9, 2014) for historical and
\* start+9 otherwise; a unit whose end year is below its start year leaves
\* no directory, no remote open and no file.
C8_EndYearAndEarlyReturn ==
    /\ \A f \in DOMAIN fs :
         f.suffix = "_cropped.nc" =>
           f.name.end_year = ClaimedEndYear(f.name.scen, f.name.year)
    /\ \A i \in 1..Len(tasks) :
         (futures[i] # "pending" /\ EndsBeforeStart(tasks[i])) =>
           /\ futures[i] = "done"
           /\ i \notin opens
           /\ i \notin writers
           /\ i \notin inflight
           /\ output_file(tasks[i]) \notin DOMAIN fs
           /\ (\A j \in 1..Len(tasks) :
                 ~EndsBeforeStart(tasks[j]) => out_dir(tasks[j]) # out_dir(tasks[i]))
                => out_dir(tasks[i]) \notin dirs

\* a historical unit starting in 2015 returned beside a 2011 unit that wrote
\* its file ending in 2014
C8_Witness ==
    /\ call.fn = "process_file"
    /\ \E i \in 1..Len(tasks) :
         /\ tasks[i].scen = "historical"
         /\ tasks[i].year = 2015
         /\ futures[i] = "done"
         /\ out_dir(tasks[i]) \notin dirs
    /\ \E f \in DOMAIN fs : f.name.year = 2011 /\ f.name.end_year = 2014

(* C9 *)

\* C9: the time axis of every combined file the Combiner writes is
\* non-decreasing, whatever the time axes of the input files and whatever
\* the order in which they are found.
C9_CombinedTimeIsSorted ==
    \A f \in DOMAIN fs :
      (f.suffix = "_combined.nc" /\ fs[f].kind = "netcdf") => IsIncreasing(fs[f].time)

\* a combined file written from two files, one of them unsorted
C9_Witness ==
    /\ \E f \in DOMAIN fs : f.suffix = "_combined.nc" /\ fs[f].kind = "netcdf"
    /\ Cardinality(Glob(SourceDir, fs)) = 2
    /\ \E g \in Glob(SourceDir, fs) : ~IsIncreasing(fs[g].time)

(* C10 *)

ExpectedPairs ==
    Flatten([j \in 1..Len(scenarios) |->
               [i \in 1..Len(model_choices) |-> <<model_choices[i], scenarios[j]>>]])

IsPrefix(s, t) == Len(s) <= Len(t) /\ \A i \in 1..Len(s) : s[i] = t[i]

\* C10: the Aggregator and the Combiner visit every resolved (model,
\* scenario) pair once, in sequence; a skipped or failed pair neither stops
\* the remaining pairs nor raises to the caller.
C10_EveryPairVisited ==
    call.fn \in {"combine", "ncml"} =>
      /\ result # "Exception"
      /\ pc \in {"scenario", "model", "done"} => IsPrefix(visited, ExpectedPairs)
      /\ (pc = "done" /\ result # "OSError")
           => /\ result = "returned"
              /\ visited = ExpectedPairs

\* the external process failed for the first pair; the Aggregator went on,
\* wrote the descriptor of the second pair, skipped the third and returned
C10_Witness ==
    /\ call.fn = "ncml"
    /\ pc = "done"
    /\ result = "returned"
    /\ failures > 0
    /\ Len(visited) = 3
    /\ visited = ExpectedPairs
    /\ <<"GFDL-ESM4", "historical">> \in dirs
    /\ ncml_file("GFDL-ESM4", "historical") \notin DOMAIN fs
    /\ ncml_file("GFDL-ESM4", "ssp126") \in DOMAIN fs

====
